---- MODULE Spec2Model ----
(***************************************************************************)
(* A model of scrape_thangs_playwright_fixed.py: the link collector, the   *)
(* page navigator, the listing discoverer, the colour extractor and the    *)
(* aggregating main loop.                                                  *)
(*                                                                         *)
(* Text is a sequence of tokens.  A token is a whitespace character, a     *)
(* punctuation character or a run of letters; adjacent letter tokens form  *)
(* one word, as adjacent letters do in a Python string.                    *)
(***************************************************************************)
EXTENDS Integers, Sequences, FiniteSets, TLC

VARIABLES
    nc_x,       \* _normalize_color: the string under normalisation
    nc_prev,    \* _normalize_color: the argument of the last call
    nc_calls,   \* _normalize_color: the number of calls made so far
    cx_soup,    \* extract_polymaker_colors: the parsed detail page
    cx_pc,      \* extract_polymaker_colors: "ready" or "done"
    cx_tier,    \* extract_polymaker_colors: the tier that supplied the colours
    cx_colors,  \* extract_polymaker_colors: the returned colour list
    lk_html,    \* collect_links_from_html: the anchors of the markup
    lk_pc,      \* collect_links_from_html: "ready" or "done"
    lk_urls,    \* collect_links_from_html: the returned set of URLs
    g_url,      \* safe_goto: the URL
    g_label,    \* safe_goto: the label of the debug snapshot
    g_attempts, \* safe_goto: the attempt budget
    g_i,        \* safe_goto: the attempts made so far
    g_log,      \* safe_goto: each attempt made: wait state, outcome, pause after it
    g_status,   \* safe_goto: "idle", "running", "ok" or "raised"
    g_err,      \* safe_goto: last_err, then the exception raised
    dumps,      \* the names dump_debug was called with, in order
    pc,         \* main: the position in the run
    acc,        \* the set urls of the discover function that is running
    last_height, \* discover_model_urls_scroll: last_height
    stagnant,   \* discover_model_urls_scroll: stagnant
    sc_it,      \* discover_model_urls_scroll: the iterations made
    sc_hist,    \* the heights the last iterations went on with, oldest first
    sc_changed, \* whether a height differed from that of the iteration before
    pg_n,       \* discover_model_urls_paged: the page number n
    pg_log,     \* discover_model_urls_paged: the pages requested so far
    urls,       \* main: the list urls
    idx,        \* main: the URLs the loop is done with
    visits,     \* main: each URL the loop took up, with how it ended
    rows,       \* main: rows
    color_to_models, \* main: color_to_models, in insertion order
    models_csv, \* the file models_colors.csv
    colors_csv  \* the file color_counts.csv

nc_vars == <<nc_x, nc_prev, nc_calls>>
cx_vars == <<cx_soup, cx_pc, cx_tier, cx_colors>>
lk_vars == <<lk_html, lk_pc, lk_urls>>
fn_vars == <<nc_vars, cx_vars, lk_vars>>
g_vars == <<g_url, g_label, g_attempts, g_i, g_log, g_status, g_err>>
sc_vars == <<last_height, stagnant, sc_it, sc_hist, sc_changed>>
pg_vars == <<pg_n, pg_log>>
out_vars == <<rows, color_to_models, models_csv, colors_csv>>
loop_vars == <<urls, idx, visits>>
m_vars == <<pc, acc, sc_vars, pg_vars, loop_vars, out_vars>>
vars == <<fn_vars, g_vars, dumps, m_vars>>

(***************************************************************************)
(* Characters and words                                                    *)
(***************************************************************************)
WS == {" ", "\n"}

\* the characters of x.strip(" -.") (the dashes and the middle dot of the
\* source are all modelled by "-")
StripChars == {" ", "-", "."}

LetterTokens ==
    {"Polymaker", "polymaker", "Matte", "matte", "Grey", "grey", "Gray",
     "gray", "Ash", "ash", "Red", "PLA", "pla", "Ko", "Shop", "Website"}

IsWS(t) == t \in WS
IsLetter(t) == t \in LetterTokens

\* str.lower() on one token
Lower(t) ==
    CASE t = "Polymaker" -> "polymaker"
      [] t = "Matte" -> "matte"
      [] t = "Grey" -> "grey"
      [] t = "Gray" -> "gray"
      [] t = "Ash" -> "ash"
      [] t = "Red" -> "red"
      [] t = "PLA" -> "pla"
      [] t = "Ko" -> "ko"
      [] t = "Shop" -> "shop"
      [] t = "Website" -> "website"
      [] OTHER -> t

\* str.lower()
LowerStr(s) == [i \in 1..Len(s) |-> Lower(s[i])]

\* s[a..b], empty when a > b
Slice(s, a, b) == IF a > b THEN <<>> ELSE SubSeq(s, a, b)

\* str.strip(chars)
RECURSIVE LStrip(_, _)
LStrip(s, chars) ==
    IF s # <<>> /\ Head(s) \in chars THEN LStrip(Tail(s), chars) ELSE s

RECURSIVE RStrip(_, _)
RStrip(s, chars) ==
    IF s # <<>> /\ s[Len(s)] \in chars
    THEN RStrip(Slice(s, 1, Len(s) - 1), chars)
    ELSE s

Strip(s, chars) == RStrip(LStrip(s, chars), chars)

\* re.sub(r"\s+", " ", s)
RECURSIVE CollapseWS(_)
CollapseWS(s) ==
    IF s = <<>> THEN <<>>
    ELSE IF IsWS(Head(s))
         THEN <<" ">> \o CollapseWS(LStrip(s, WS))
         ELSE <<Head(s)>> \o CollapseWS(Tail(s))

\* \b between positions i and i+1 of s (0 and Len(s) are the two ends)
Boundary(s, i) ==
    LET l == i >= 1 /\ IsLetter(s[i])
        r == i + 1 <= Len(s) /\ IsLetter(s[i + 1])
    IN  l # r

\* re.sub(r"\bGrey\b", "Gray", s, flags=re.I)
SubGrey(s) ==
    [i \in 1..Len(s) |->
        IF Lower(s[i]) = "grey" /\ Boundary(s, i - 1) /\ Boundary(s, i)
        THEN "Gray" ELSE s[i]]

\* re.sub(r"(?i)^Matte\b", "Matte", s)
SubMatteStart(s) ==
    IF s # <<>> /\ Lower(s[1]) = "matte" /\ Boundary(s, 1)
    THEN <<"Matte">> \o Tail(s)
    ELSE s

\* whether s[i..] matches \s*PLA\s*$ (case-insensitive)
MatchesPlaEnd(s, i) ==
    \E j \in i..Len(s) :
        /\ \A k \in i..(j - 1) : IsWS(s[k])
        /\ Lower(s[j]) = "pla"
        /\ \A k \in (j + 1)..Len(s) : IsWS(s[k])

\* re.sub(r"(?i)\s*PLA\s*$", "", s): the leftmost match is removed
SubPlaEnd(s) ==
    LET starts == {i \in 1..Len(s) : MatchesPlaEnd(s, i)}
    IN  IF starts = {} THEN s
        ELSE Slice(s, 1, (CHOOSE i \in starts : \A k \in starts : i <= k) - 1)

\* len(s.split()): the number of maximal runs of non-whitespace
WordCount(s) ==
    Cardinality({i \in 1..Len(s) :
        ~IsWS(s[i]) /\ (i = 1 \/ IsWS(s[i - 1]))})

(***************************************************************************)
(* POLY_ITEM_RE = Polymaker\s+([A-Za-z]+(?:\s+[A-Za-z]+)*?)\s+PLA\b  (re.I) *)
(***************************************************************************)
\* the first index >= i of s that holds no whitespace (Len(s) + 1 if none)
RECURSIVE SkipWS(_, _)
SkipWS(s, i) == IF i <= Len(s) /\ IsWS(s[i]) THEN SkipWS(s, i + 1) ELSE i

\* the last index of the run of letters that starts at i
RECURSIVE RunEnd(_, _)
RunEnd(s, i) ==
    IF i + 1 <= Len(s) /\ IsLetter(s[i + 1]) THEN RunEnd(s, i + 1) ELSE i

NoMatch == [ok |-> FALSE, cap |-> <<>>, end |-> 0]

\* the lazy group: the words from p on, the current word starting at q; the
\* group ends at the first word that \s+PLA\b follows
RECURSIVE MatchWords(_, _, _)
MatchWords(s, p, q) ==
    IF q > Len(s) \/ ~IsLetter(s[q]) THEN NoMatch
    ELSE LET e == RunEnd(s, q)
             n == SkipWS(s, e + 1)
         IN  IF n = e + 1 \/ n > Len(s) THEN NoMatch
             ELSE IF Lower(s[n]) = "pla" /\ Boundary(s, n)
                  THEN [ok |-> TRUE, cap |-> Slice(s, p, e), end |-> n]
                  ELSE MatchWords(s, p, n)

\* POLY_ITEM_RE.match(s, i)
MatchAt(s, i) ==
    IF Lower(s[i]) # "polymaker" THEN NoMatch
    ELSE LET p == SkipWS(s, i + 1)
         IN  IF p = i + 1 THEN NoMatch ELSE MatchWords(s, p, p)

\* POLY_ITEM_RE.findall(s), scanning from index i
RECURSIVE FindAllFrom(_, _)
FindAllFrom(s, i) ==
    IF i > Len(s) THEN <<>>
    ELSE LET m == MatchAt(s, i)
         IN  IF m.ok THEN <<m.cap>> \o FindAllFrom(s, m.end + 1)
             ELSE FindAllFrom(s, i + 1)

FindAll(s) == FindAllFrom(s, 1)

(***************************************************************************)
(* _normalize_color                                                        *)
(***************************************************************************)
normalize_color(c) ==
    LET x1 == Strip(c, WS)
        x2 == CollapseWS(x1)
        x3 == SubGrey(x2)
        x4 == SubMatteStart(x3)
        x5 == SubPlaEnd(x4)
        x6 == Strip(x5, StripChars)
    IN  IF LowerStr(x6) = <<"matte">> \/ WordCount(x6) < 2 THEN <<>> ELSE x6

\* the longest string given to _normalize_color
RECURSIVE SeqsUpTo(_, _)
SeqsUpTo(S, n) ==
    IF n = 0 THEN {<<>>}
    ELSE LET shorter == SeqsUpTo(S, n - 1)
         IN  shorter \cup {Append(s, t) : s \in {u \in shorter : Len(u) = n - 1}, t \in S}

(***************************************************************************)
(* extract_polymaker_colors                                                *)
(*                                                                         *)
(* A parsed page is [header, block, outside]: whether a text node matches  *)
(* HEADER_RE, the elements find_all yields inside the header's container   *)
(* (in document order, each [tag, poly, text]: its tag name, whether its   *)
(* href matches POLY_DOMAIN_RE, its own text) and the text nodes outside   *)
(* the container.                                                          *)
(***************************************************************************)
\* find_all(..., limit=80) and find_all(..., limit=120)
StrictLimit == 80
RelaxedLimit == 120

HeaderText == <<"Shop", " ", "Polymaker", " ", "Website">>

\* the elements of tags `names` among es, at most `limit` of them
FindTags(es, names, limit) ==
    LET found == SelectSeq(es, LAMBDA e : e.tag \in names)
    IN  Slice(found, 1, IF Len(found) < limit THEN Len(found) ELSE limit)

\* tag.get_text(" ", strip=True) of an element holding one text node
GetText(e) == Strip(e.text, WS)

InList(colors, key) == \E i \in 1..Len(colors) : LowerStr(colors[i]) = key

\* the loop body of both block scans over the matches ms: a match is kept
\* when its lowercase form is new and it has two words or more
RECURSIVE AddMatches(_, _)
AddMatches(colors, ms) ==
    IF ms = <<>> THEN colors
    ELSE LET color == Strip(Head(ms), WS)
         IN  AddMatches(
                IF ~InList(colors, LowerStr(color)) /\ WordCount(color) >= 2
                THEN Append(colors, color) ELSE colors,
                Tail(ms))

RECURSIVE ScanStrict(_, _)
ScanStrict(colors, tags) ==
    IF tags = <<>> THEN colors
    ELSE LET tag == Head(tags)
         IN  ScanStrict(
                IF tag.tag = "a" /\ tag.poly
                THEN AddMatches(colors, FindAll(GetText(tag))) ELSE colors,
                Tail(tags))

extract_from_poly_block_strict(soup) ==
    IF ~soup.header THEN <<>>
    ELSE ScanStrict(<<>>, FindTags(soup.block, {"a", "li"}, StrictLimit))

RECURSIVE ScanRelaxed(_, _)
ScanRelaxed(colors, tags) ==
    IF tags = <<>> THEN colors
    ELSE ScanRelaxed(AddMatches(colors, FindAll(GetText(Head(tags)))), Tail(tags))

extract_from_poly_block_relaxed(soup) ==
    IF ~soup.header THEN <<>>
    ELSE ScanRelaxed(<<>>, FindTags(soup.block, {"li"}, RelaxedLimit))

\* "\n".join(texts)
RECURSIVE JoinNL(_)
JoinNL(texts) ==
    IF texts = <<>> THEN <<>>
    ELSE IF Len(texts) = 1 THEN texts[1]
    ELSE texts[1] \o <<"\n">> \o JoinNL(Tail(texts))

\* soup.get_text("\n", strip=True): every text node stripped, the empty ones
\* dropped, joined by newlines
PageText(soup) ==
    LET nodes == (IF soup.header THEN <<HeaderText>> ELSE <<>>)
                 \o [i \in 1..Len(soup.block) |-> soup.block[i].text]
                 \o soup.outside
        stripped == [i \in 1..Len(nodes) |-> Strip(nodes[i], WS)]
    IN  JoinNL(SelectSeq(stripped, LAMBDA t : t # <<>>))

\* the rewriting of one colour in the final loop of extract_polymaker_colors
CleanOne(c) == Strip(CollapseWS(SubGrey(c)), StripChars)

\* the final loop with the test of the lowercase key left out
RECURSIVE CleanColorsNoSeen(_, _)
CleanColorsNoSeen(clean, colors) ==
    IF colors = <<>> THEN clean
    ELSE LET x == CleanOne(Head(colors))
         IN  CleanColorsNoSeen(
                IF WordCount(x) >= 2 THEN Append(clean, x) ELSE clean,
                Tail(colors))

\* the final loop of extract_polymaker_colors ("Normalizacion minima")
RECURSIVE CleanColors(_, _)
CleanColors(clean, colors) ==
    IF colors = <<>> THEN clean
    ELSE LET x == CleanOne(Head(colors))
         IN  CleanColors(
                IF WordCount(x) >= 2 /\ ~InList(clean, LowerStr(x))
                THEN Append(clean, x) ELSE clean,
                Tail(colors))

\* the colours before the final loop, with the tier that supplied them
RawColors(soup) ==
    LET strict == extract_from_poly_block_strict(soup)
        relaxed == extract_from_poly_block_relaxed(soup)
        found == FindAll(PageText(soup))
    IN  IF strict # <<>> THEN [tier |-> "strict", colors |-> strict]
        ELSE IF relaxed # <<>> THEN [tier |-> "relaxed", colors |-> relaxed]
        ELSE [tier |-> "global",
              colors |-> [i \in 1..Len(found) |-> Strip(found[i], WS)]]

extract_polymaker_colors(soup) ==
    LET raw == RawColors(soup)
    IN  [tier |-> raw.tier, colors |-> CleanColors(<<>>, raw.colors)]

(***************************************************************************)
(* collect_links_from_html                                                 *)
(*                                                                         *)
(* An href is a sequence of tokens: an origin, one of the two literals of  *)
(* MODEL_LINK_RE (in either case), "/", "?", "-", a run of digits ("7") or *)
(* a run of other characters ("seg").  Hrefs hold no whitespace.           *)
(***************************************************************************)
ThangsOrigin == "https://thangs.com"
Origins == {ThangsOrigin, "https://other.com"}
DesignerLit == {"/designer/", "/DESIGNER/"}
ModelLit == {"/3d-model/", "/3D-MODEL/"}

\* a token that holds a "/"
HasSlash(t) == t \in Origins \cup DesignerLit \cup ModelLit \cup {"/"}

\* whether the tail of h after index k matches [^?\s]+-\d+$
SlugIdTail(h, k) ==
    \E d \in (k + 2)..Len(h) :
        /\ h[d] = "-"
        /\ d < Len(h)
        /\ \A i \in (d + 1)..Len(h) : h[i] = "7"
        /\ \A i \in (k + 1)..(d - 1) : h[i] # "?"

\* whether MODEL_LINK_RE matches h from index i on
LinkMatchAt(h, i) ==
    /\ h[i] \in DesignerLit
    /\ \E k \in (i + 2)..Len(h) :
        /\ h[k] \in ModelLit
        /\ \A j \in (i + 1)..(k - 1) : ~HasSlash(h[j])
        /\ SlugIdTail(h, k)

\* MODEL_LINK_RE.search(href)
ModelLinkSearch(h) == \E i \in 1..Len(h) : LinkMatchAt(h, i)

\* "/3d-model/" in href
HasModelPath(h) == \E i \in 1..Len(h) : h[i] = "/3d-model/"

\* urljoin("https://thangs.com", href)
UrlJoin(h) ==
    IF h = <<>> THEN <<ThangsOrigin>>
    ELSE IF h[1] \in Origins THEN h
    ELSE IF HasSlash(h[1]) \/ h[1] = "?" THEN <<ThangsOrigin>> \o h
    ELSE <<ThangsOrigin, "/">> \o h

\* soup.find_all("a", href=True)
AnchorsWithHref(html) == SelectSeq(html, LAMBDA a : a.has_href)

\* the first loop: the hrefs MODEL_LINK_RE matches
RECURSIVE CollectStrict(_, _)
CollectStrict(found, as) ==
    IF as = <<>> THEN found
    ELSE CollectStrict(
            IF ModelLinkSearch(Head(as).href)
            THEN found \cup {UrlJoin(Head(as).href)} ELSE found,
            Tail(as))

\* the second loop: the hrefs that hold "/3d-model/"
RECURSIVE CollectLoose(_, _)
CollectLoose(found, as) ==
    IF as = <<>> THEN found
    ELSE CollectLoose(
            IF HasModelPath(Head(as).href)
            THEN found \cup {UrlJoin(Head(as).href)} ELSE found,
            Tail(as))

\* the second loop run whether or not the first one found a link
collect_links_always_loose(html) ==
    CollectLoose(CollectStrict({}, AnchorsWithHref(html)), AnchorsWithHref(html))

collect_links_from_html(html) ==
    LET found == CollectStrict({}, AnchorsWithHref(html))
    IN  IF found = {} THEN CollectLoose(found, AnchorsWithHref(html)) ELSE found

(***************************************************************************)
(* dump_debug and safe_goto                                                *)
(*                                                                         *)
(* page.goto either returns or raises PwTimeout.  dump_debug swallows      *)
(* every exception of its two writes; the model records the call.          *)
(***************************************************************************)
dump_debug(log, name) == Append(log, name)

\* states = ["domcontentloaded", "load", None]
WaitStates == <<"domcontentloaded", "load", "none">>

Min(a, b) == IF a < b THEN a ELSE b

\* the wait state taken round the list again once the list is used up
WaitStateOfWrap(i) == WaitStates[(i % Len(WaitStates)) + 1]

\* states[min(i, len(states)-1)] for the 0-based attempt index i
WaitStateOf(i) == WaitStates[Min(i, Len(WaitStates) - 1) + 1]

\* page.wait_for_timeout(1500)
PauseMs == 1500

\* the pause made after a page.goto that returned: none when a wait state
\* was given, page.wait_for_timeout(1500) when it was not
PauseAfter(state) == IF state = "none" THEN PauseMs ELSE 0


(***************************************************************************)
(* The title, the rows and the two reports of main                         *)
(***************************************************************************)
\* model_url.rsplit("/", 1)[-1]: what follows the last "/" of a URL that
\* holds a path
UrlTail(url) ==
    LET slashes == {i \in 1..Len(url) : HasSlash(url[i])}
        last == CHOOSE i \in slashes : \A k \in slashes : k <= i
    IN  IF slashes = {} THEN url ELSE Slice(url, last + 1, Len(url))

\* re.sub(r"\s*\(No Support.*$", "", t) on a title of one line
SubNoSupport(t) ==
    LET at == {i \in 1..Len(t) : t[i] = "(No Support"}
        first == CHOOSE i \in at : \A k \in at : i <= k
    IN  IF at = {} THEN t ELSE RStrip(Slice(t, 1, first - 1), WS)

\* title_text: the text of the first h1 or title node (<<>> stands for a
\* page with neither), else the tail of the URL
TitleText(h1, url) ==
    Strip(SubNoSupport(IF h1 # <<>> THEN Strip(h1, WS) ELSE UrlTail(url)), WS)

\* sep.join(parts)
RECURSIVE JoinWith(_, _)
JoinWith(parts, sep) ==
    IF parts = <<>> THEN <<>>
    ELSE IF Len(parts) = 1 THEN parts[1]
    ELSE parts[1] \o <<sep>> \o JoinWith(Tail(parts), sep)

\* color_to_models[c] = [title]: the list of a colour begun anew at each use
SetDefaultOverwrite(d, c, title) ==
    IF \E i \in 1..Len(d) : d[i].color = c
    THEN [i \in 1..Len(d) |->
            IF d[i].color = c THEN [color |-> c, models |-> <<title>>] ELSE d[i]]
    ELSE Append(d, [color |-> c, models |-> <<title>>])

\* color_to_models.setdefault(c, []).append(title), the dict kept as the
\* sequence of its items in insertion order
SetDefaultAppend(d, c, title) ==
    IF \E i \in 1..Len(d) : d[i].color = c
    THEN [i \in 1..Len(d) |->
            IF d[i].color = c
            THEN [color |-> c, models |-> Append(d[i].models, title)]
            ELSE d[i]]
    ELSE Append(d, [color |-> c, models |-> <<title>>])

\* for c in colors: color_to_models.setdefault(c, []).append(title)
RECURSIVE IndexColors(_, _, _)
IndexColors(d, colors, title) ==
    IF colors = <<>> THEN d
    ELSE IndexColors(SetDefaultAppend(d, Head(colors), title), Tail(colors), title)

\* the order of the characters and words of a lowercase colour name; no
\* word is a prefix of another, so comparing word by word is comparing
\* character by character
TokenRank(t) ==
    CASE t = "\n" -> 0
      [] t = " " -> 1
      [] t = "-" -> 2
      [] t = "." -> 3
      [] t = "ash" -> 4
      [] t = "gray" -> 5
      [] t = "grey" -> 6
      [] t = "ko" -> 7
      [] t = "matte" -> 8
      [] t = "pla" -> 9
      [] t = "polymaker" -> 10
      [] t = "red" -> 11
      [] t = "shop" -> 12
      [] t = "website" -> 13
      [] OTHER -> 14

\* s < t for two strings
RECURSIVE StrLess(_, _)
StrLess(s, t) ==
    IF t = <<>> THEN FALSE
    ELSE IF s = <<>> THEN TRUE
    ELSE IF Head(s) = Head(t) THEN StrLess(Tail(s), Tail(t))
    ELSE TokenRank(Head(s)) < TokenRank(Head(t))

\* key(a) < key(b) for key = lambda x: (-len(x[1]), x[0].lower())
KeyLess(a, b) ==
    \/ Len(a.models) > Len(b.models)
    \/ /\ Len(a.models) = Len(b.models)
       /\ StrLess(LowerStr(a.color), LowerStr(b.color))

\* key(a) < key(b) for key = lambda x: -len(x[1]), the key of the "top" list
KeyLessCountOnly(a, b) == Len(a.models) > Len(b.models)

\* one step of a stable sort: item goes behind the items it is not less than
RECURSIVE InsertStable(_, _)
InsertStable(sorted, item) ==
    IF sorted = <<>> THEN <<item>>
    ELSE IF KeyLess(item, Head(sorted)) THEN <<item>> \o sorted
    ELSE <<Head(sorted)>> \o InsertStable(Tail(sorted), item)

RECURSIVE InsertStableCountOnly(_, _)
InsertStableCountOnly(sorted, item) ==
    IF sorted = <<>> THEN <<item>>
    ELSE IF KeyLessCountOnly(item, Head(sorted)) THEN <<item>> \o sorted
    ELSE <<Head(sorted)>> \o InsertStableCountOnly(Tail(sorted), item)

RECURSIVE SortCountOnly(_, _)
SortCountOnly(sorted, d) ==
    IF d = <<>> THEN sorted
    ELSE SortCountOnly(InsertStableCountOnly(sorted, Head(d)), Tail(d))

\* the items sorted by the number of models alone
SortedByCountOnly(d) == SortCountOnly(<<>>, d)

RECURSIVE SortItems(_, _)
SortItems(sorted, d) ==
    IF d = <<>> THEN sorted
    ELSE SortItems(InsertStable(sorted, Head(d)), Tail(d))

\* sorted(color_to_models.items(), key=lambda x: (-len(x[1]), x[0].lower()))
SortedByCountThenName(d) == SortItems(<<>>, d)

ModelsHeader == <<"model_name", "model_url", "colors">>
ColorsHeader == <<"color", "count", "models">>

NoFile == [exists |-> FALSE, lines |-> <<>>]

\* Path(...).write_text(header): the file holds its header row alone
HeaderOnly(header) == [exists |-> TRUE, lines |-> <<header>>]

\* w.writeheader(); w.writerows(rows)
ModelsReport(rs) ==
    [exists |-> TRUE,
     lines |-> <<ModelsHeader>>
               \o [i \in 1..Len(rs) |->
                     <<rs[i].model_name, rs[i].model_url, rs[i].colors>>]]

\* the header, then one row [color, len(models), "; ".join(models)] for
\* each item of the sorted index
ColorsReport(d) ==
    LET items == SortedByCountThenName(d)
    IN  [exists |-> TRUE,
         lines |-> <<ColorsHeader>>
                   \o [i \in 1..Len(items) |->
                         <<items[i].color, Len(items[i].models),
                           JoinWith(items[i].models, "; ")>>]]

\* the order of the tokens of a URL; the URLs compared differ first in
\* tokens neither of which is a prefix of the other
UrlTokenRank(t) ==
    CASE t = "-" -> 0
      [] t = "/" -> 1
      [] t = "/3D-MODEL/" -> 2
      [] t = "/3d-model/" -> 3
      [] t = "/DESIGNER/" -> 4
      [] t = "/designer/" -> 5
      [] t = "7" -> 6
      [] t = "?" -> 7
      [] t = "https://other.com" -> 8
      [] t = "https://thangs.com" -> 9
      [] OTHER -> 10

RECURSIVE UrlLess(_, _)
UrlLess(s, t) ==
    IF t = <<>> THEN FALSE
    ELSE IF s = <<>> THEN TRUE
    ELSE IF Head(s) = Head(t) THEN UrlLess(Tail(s), Tail(t))
    ELSE UrlTokenRank(Head(s)) < UrlTokenRank(Head(t))

\* sorted(urls) of a set of URLs
RECURSIVE SortedUrls(_)
SortedUrls(S) ==
    IF S = {} THEN <<>>
    ELSE LET least == CHOOSE u \in S : \A v \in S \ {u} : UrlLess(u, v)
         IN  <<least>> \o SortedUrls(S \ {least})

(***************************************************************************)
(* Bounds, program constants and the inputs drawn                          *)
(***************************************************************************)
\* the longest string given to _normalize_color
MaxColorLen == 4
\* the most elements in the header's container, and the most text nodes
\* outside it
MaxBlock == 2
MaxOutside == 2
\* the most anchors in a markup
MaxAnchors == 3
\* the largest attempt budget given to safe_goto
MaxAttempts == 6
\* the largest scroll height read
MaxHeight == 1

\* attempts: int = 3
DefaultAttempts == 3
\* for _ in range(40)
ScrollBudget == 40
\* if stagnant >= 4
StagnantLimit == 4
\* max_pages: int = 20
MaxPages == 20

NormAlphabet == {" ", "-", ".", "matte", "Grey", "Ash", "pla"}

TxtTwoItems ==
    <<"Polymaker", " ", "Matte", " ", "PLA", " ", "-", " ",
      "Polymaker", " ", "Matte", " ", "Ash", " ", "Gray", " ", "PLA">>
TxtGrey == <<"Polymaker", " ", "matte", "\n", "Ash", " ", "Grey", " ", "pla">>
TxtRedDot == <<"polymaker", " ", "Matte", " ", "Red", " ", "PLA", ".">>
TxtPlain == <<"Ash", " ", "Red">>

Texts == {TxtTwoItems, TxtGrey, TxtRedDot, TxtPlain}

Elements == [tag : {"a"}, poly : BOOLEAN, text : Texts]
            \cup [tag : {"li"}, poly : {FALSE}, text : Texts]

Soups ==
    [header : {TRUE}, block : SeqsUpTo(Elements, MaxBlock),
     outside : SeqsUpTo(Texts, MaxOutside)]
    \cup [header : {FALSE}, block : {<<>>}, outside : SeqsUpTo(Texts, MaxOutside)]

NoSoup == [header |-> FALSE, block |-> <<>>, outside |-> <<>>]

StrictHref == <<"/designer/", "seg", "/3d-model/", "seg", "-", "7">>
UpperHref == <<"/DESIGNER/", "seg", "/3D-MODEL/", "seg", "/", "seg", "-", "7", "7">>
LooseHref == <<"/3d-model/", "seg">>

Hrefs ==
    {StrictHref,
     <<ThangsOrigin>> \o StrictHref,
     UpperHref,
     StrictHref \o <<"?", "seg">>,
     <<"/designer/", "seg", "/3d-model/", "-", "7">>,
     <<"/designer/", "seg", "/", "seg", "/3d-model/", "seg", "-", "7">>,
     LooseHref,
     <<"https://other.com", "/3d-model/", "seg">>,
     <<"seg", "/3d-model/", "seg", "-", "seg">>,
     <<"/designer/", "seg">>,
     <<>>}

Anchors == [has_href : {TRUE}, href : Hrefs] \cup [has_href : {FALSE}, href : {<<>>}]

A(h) == [has_href |-> TRUE, href |-> h]

\* the markups the listing serves: no link, one model, two models (one of
\* them twice) beside a looser link, a looser link alone
ListingMarkups ==
    {<<>>,
     <<A(StrictHref)>>,
     <<A(StrictHref), A(<<ThangsOrigin>> \o StrictHref), A(UpperHref), A(LooseHref)>>,
     <<A(LooseHref)>>}

ListingUrl == <<ThangsOrigin, "/designer/", "seg">>

PolyA(t) == [tag |-> "a", poly |-> TRUE, text |-> t]

\* the detail pages the site serves, each with the text of its first h1 or
\* title node (<<>>: it has neither)
DetailPages ==
    {[h1 |-> <<"Kit", " ", "(No Support", " ", "needed)">>,
      soup |-> [header |-> TRUE, block |-> <<PolyA(TxtTwoItems), PolyA(TxtRedDot)>>,
                outside |-> <<>>]],
     [h1 |-> <<"Car">>,
      soup |-> [header |-> TRUE, block |-> <<PolyA(TxtRedDot), PolyA(TxtTwoItems)>>,
                outside |-> <<>>]],
     [h1 |-> <<"Kit">>,
      soup |-> [header |-> TRUE,
                block |-> <<[tag |-> "li", poly |-> FALSE, text |-> TxtGrey]>>,
                outside |-> <<>>]],
     [h1 |-> <<>>,
      soup |-> [header |-> FALSE, block |-> <<>>, outside |-> <<TxtRedDot>>]],
     [h1 |-> <<"Car">>,
      soup |-> [header |-> FALSE, block |-> <<>>, outside |-> <<TxtPlain>>]]}

Heights == 0..MaxHeight
Unreadable == -1

AfterScroll == <<"designer", "_after_scroll">>

(***************************************************************************)
(* The initial states: of a run of main, and of a call of one function     *)
(***************************************************************************)
InitFor(mode) ==
    /\ nc_x \in IF mode = "norm" THEN SeqsUpTo(NormAlphabet, MaxColorLen) ELSE {<<>>}
    /\ nc_prev = <<>>
    /\ nc_calls = 0
    /\ cx_soup \in IF mode = "colors" THEN Soups ELSE {NoSoup}
    /\ cx_pc = IF mode = "colors" THEN "ready" ELSE "idle"
    /\ cx_tier = "none"
    /\ cx_colors = <<>>
    /\ lk_html \in IF mode = "links" THEN SeqsUpTo(Anchors, MaxAnchors) ELSE {<<>>}
    /\ lk_pc = IF mode = "links" THEN "ready" ELSE "idle"
    /\ lk_urls = {}
    /\ g_url \in IF mode = "goto"
                 THEN {ListingUrl, <<ThangsOrigin>> \o StrictHref} ELSE {<<>>}
    /\ g_label \in IF mode = "goto" THEN {"designer", "model"} ELSE {"page"}
    /\ g_attempts \in IF mode = "goto" THEN 0..MaxAttempts ELSE {DefaultAttempts}
    /\ g_i = 0
    /\ g_log = <<>>
    /\ g_status = IF mode = "goto" THEN "running" ELSE "idle"
    /\ g_err = "none"
    /\ dumps = <<>>
    /\ pc = IF mode = "main" THEN "start" ELSE IF mode = "scroll" THEN "scroll" ELSE "idle"
    /\ acc = {}
    /\ last_height = 0
    /\ stagnant = 0
    /\ sc_it = 0
    /\ sc_hist = <<0>>
    /\ sc_changed = FALSE
    /\ pg_n = 1
    /\ pg_log = <<>>
    /\ urls = <<>>
    /\ idx = 0
    /\ visits = <<>>
    /\ rows = <<>>
    /\ color_to_models = <<>>
    /\ models_csv = NoFile
    /\ colors_csv = NoFile

(***************************************************************************)
(* The calls of the three pure functions                                   *)
(***************************************************************************)
\* one call x = _normalize_color(x)
Normalize ==
    /\ nc_calls < 2
    /\ nc_prev' = nc_x
    /\ nc_x' = normalize_color(nc_x)
    /\ nc_calls' = nc_calls + 1
    /\ UNCHANGED <<cx_vars, lk_vars, g_vars, dumps, m_vars>>

\* the colour part of one call of extract_polymaker_colors on the loaded page
Extract ==
    /\ cx_pc = "ready"
    /\ LET r == extract_polymaker_colors(cx_soup)
       IN  /\ cx_tier' = r.tier
           /\ cx_colors' = r.colors
    /\ cx_pc' = "done"
    /\ UNCHANGED <<cx_soup, nc_vars, lk_vars, g_vars, dumps, m_vars>>

\* one call of collect_links_from_html on the markup
CollectLinks ==
    /\ lk_pc = "ready"
    /\ lk_urls' = collect_links_from_html(lk_html)
    /\ lk_pc' = "done"
    /\ UNCHANGED <<lk_html, nc_vars, cx_vars, g_vars, dumps, m_vars>>

(***************************************************************************)
(* safe_goto                                                               *)
(***************************************************************************)
\* the entry of safe_goto(page, url, label, attempts)
GotoCall(url, label, attempts) ==
    /\ g_url' = url
    /\ g_label' = label
    /\ g_attempts' = attempts
    /\ g_i' = 0
    /\ g_log' = <<>>
    /\ g_status' = "running"
    /\ g_err' = "none"

\* safe_goto is left, by return or by raise: its frame is gone
GotoLeave ==
    /\ g_url' = <<>>
    /\ g_label' = "page"
    /\ g_attempts' = DefaultAttempts
    /\ g_i' = 0
    /\ g_log' = <<>>
    /\ g_status' = "idle"
    /\ g_err' = "none"

\* a pass of the loop whose page.goto returns, the loop going on
GotoAttemptOkNoReturn ==
    /\ g_status = "running"
    /\ g_i < g_attempts
    /\ g_log' = Append(g_log, [wait |-> WaitStateOf(g_i), result |-> "ok",
                            pause |-> PauseAfter(WaitStateOf(g_i))])
    /\ g_i' = g_i + 1
    /\ UNCHANGED <<g_url, g_label, g_attempts, g_status, g_err, dumps, fn_vars, m_vars>>

\* a pass of the loop whose page.goto returns: return True
GotoAttemptOk ==
    /\ g_status = "running"
    /\ g_i < g_attempts
    /\ g_log' = Append(g_log, [wait |-> WaitStateOf(g_i), result |-> "ok",
                            pause |-> PauseAfter(WaitStateOf(g_i))])
    /\ g_i' = g_i + 1
    /\ g_status' = "ok"
    /\ UNCHANGED <<g_url, g_label, g_attempts, g_err, dumps, fn_vars, m_vars>>

\* a pass of the loop whose page.goto raises PwTimeout: last_err = e
GotoAttemptTimeout ==
    /\ g_status = "running"
    /\ g_i < g_attempts
    /\ g_log' = Append(g_log, [wait |-> WaitStateOf(g_i), result |-> "timeout",
                            pause |-> 0])
    /\ g_i' = g_i + 1
    /\ g_err' = "PwTimeout"
    /\ UNCHANGED <<g_url, g_label, g_attempts, g_status, dumps, fn_vars, m_vars>>

\* the loop is over with no return: dump_debug, then raise last_err or
\* RuntimeError
GotoExhausted ==
    /\ g_status = "running"
    /\ g_i >= g_attempts
    /\ dumps' = dump_debug(dumps, <<g_label, "_goto_fail">>)
    /\ g_status' = "raised"
    /\ g_err' = IF g_err = "none" THEN "RuntimeError" ELSE g_err
    /\ UNCHANGED <<g_url, g_label, g_attempts, g_i, g_log, fn_vars, m_vars>>

(***************************************************************************)
(* discover_model_urls_scroll                                              *)
(***************************************************************************)
\* the last n elements of s
LastN(s, n) == IF Len(s) <= n THEN s ELSE SubSeq(s, Len(s) - n + 1, Len(s))

\* main calls discover_model_urls_scroll, which calls safe_goto on the listing
MainStart ==
    /\ pc = "start"
    /\ GotoCall(ListingUrl, "designer", DefaultAttempts)
    /\ acc' = {}
    /\ pc' = "listing_goto"
    /\ UNCHANGED <<dumps, fn_vars, sc_vars, pg_vars, loop_vars, out_vars>>

\* safe_goto on the listing raised: nothing catches it, the run is over
ListingGotoRaised ==
    /\ pc = "listing_goto"
    /\ g_status = "raised"
    /\ pc' = "aborted_listing"
    /\ GotoLeave
    /\ UNCHANGED <<dumps, fn_vars, acc, sc_vars, pg_vars, loop_vars, out_vars>>

\* safe_goto on the listing returned: wait_for_selector, whose timeout is
\* caught and dumped, then last_height = 0, stagnant = 0
WaitSelector ==
    /\ pc = "listing_goto"
    /\ g_status = "ok"
    /\ \E visible \in BOOLEAN :
         dumps' = IF visible THEN dumps
                  ELSE dump_debug(dumps, <<"designer", "_initial">>)
    /\ last_height' = 0
    /\ stagnant' = 0
    /\ sc_it' = 0
    /\ sc_hist' = <<0>>
    /\ sc_changed' = FALSE
    /\ pc' = "scroll"
    /\ GotoLeave
    /\ UNCHANGED <<fn_vars, acc, pg_vars, loop_vars, out_vars>>

\* one pass of the scroll loop with stagnant never put back to 0
ScrollStepNoReset ==
    /\ pc = "scroll"
    /\ \E html \in ListingMarkups, h \in Heights \cup {Unreadable} :
         LET height == IF h = Unreadable THEN last_height ELSE h
             stag == IF height = last_height THEN stagnant + 1 ELSE stagnant
             seen == IF h = Unreadable THEN sc_hist[Len(sc_hist)] ELSE h
         IN  /\ acc' = acc \cup collect_links_from_html(html)
             /\ stagnant' = stag
             /\ last_height' = height
             /\ sc_it' = sc_it + 1
             /\ sc_hist' = LastN(Append(sc_hist, seen), StagnantLimit + 1)
             /\ sc_changed' = (sc_changed \/ (sc_it >= 1 /\ seen # sc_hist[Len(sc_hist)]))
             /\ pc' = IF stag >= StagnantLimit \/ sc_it + 1 >= ScrollBudget
                      THEN "scroll_end" ELSE "scroll"
    /\ UNCHANGED <<g_vars, dumps, fn_vars, pg_vars, loop_vars, out_vars>>

\* one pass of the scroll loop: the links of the markup are collected, the
\* page is scrolled and the height h is read (Unreadable: evaluate raised, so
\* height = last_height); sc_hist and sc_changed record the heights seen
ScrollStep ==
    /\ pc = "scroll"
    /\ \E html \in ListingMarkups, h \in Heights \cup {Unreadable} :
         LET height == IF h = Unreadable THEN last_height ELSE h
             stag == IF height = last_height THEN stagnant + 1 ELSE 0
             seen == IF h = Unreadable THEN sc_hist[Len(sc_hist)] ELSE h
         IN  /\ acc' = acc \cup collect_links_from_html(html)
             /\ stagnant' = stag
             /\ last_height' = height
             /\ sc_it' = sc_it + 1
             /\ sc_hist' = LastN(Append(sc_hist, seen), StagnantLimit + 1)
             /\ sc_changed' = (sc_changed \/ (sc_it >= 1 /\ seen # sc_hist[Len(sc_hist)]))
             /\ pc' = IF stag >= StagnantLimit \/ sc_it + 1 >= ScrollBudget
                      THEN "scroll_end" ELSE "scroll"
    /\ UNCHANGED <<g_vars, dumps, fn_vars, pg_vars, loop_vars, out_vars>>

\* the end of discover_model_urls_scroll and main's test of its result: with
\* no URL both dump, and main calls discover_model_urls_paged
ScrollReturn ==
    /\ pc = "scroll_end"
    /\ urls' = SortedUrls(acc)
    /\ dumps' = IF acc = {}
                THEN dump_debug(dump_debug(dumps, AfterScroll), AfterScroll)
                ELSE dumps
    /\ pc' = IF acc = {} THEN "paged" ELSE "visit"
    /\ acc' = {}
    /\ pg_n' = 1
    /\ pg_log' = <<>>
    /\ idx' = 0
    /\ last_height' = 0
    /\ stagnant' = 0
    /\ sc_it' = 0
    /\ sc_hist' = <<0>>
    /\ sc_changed' = FALSE
    /\ UNCHANGED <<g_vars, fn_vars, visits, out_vars>>

(***************************************************************************)
(* discover_model_urls_paged                                               *)
(***************************************************************************)
\* page n loads, at the first page.goto or at the second one after the
\* first timed out; its links are collected, and the loop ends when found
\* is empty or n is max_pages
PagedPageLoaded ==
    /\ pc = "paged"
    /\ \E html \in ListingMarkups :
         LET found == collect_links_from_html(html)
         IN  /\ acc' = acc \cup found
             /\ pg_log' = Append(pg_log, [n |-> pg_n, loaded |-> TRUE,
                                          any |-> found # {},
                                          fresh |-> found \ acc # {}])
             /\ pc' = IF found = {} \/ pg_n >= MaxPages THEN "paged_end" ELSE "paged"
             /\ pg_n' = IF found = {} \/ pg_n >= MaxPages THEN pg_n ELSE pg_n + 1
    /\ UNCHANGED <<g_vars, dumps, fn_vars, sc_vars, loop_vars, out_vars>>

\* both page.goto of page n time out: the second PwTimeout is caught nowhere
PagedPageTimeout ==
    /\ pc = "paged"
    /\ pg_log' = Append(pg_log, [n |-> pg_n, loaded |-> FALSE,
                                 any |-> FALSE, fresh |-> FALSE])
    /\ pc' = "aborted_paged"
    /\ UNCHANGED <<g_vars, dumps, fn_vars, acc, sc_vars, pg_n, loop_vars, out_vars>>

\* discover_model_urls_paged returns URLs: main goes on to the detail pages
PagedReturnFound ==
    /\ pc = "paged_end"
    /\ acc # {}
    /\ urls' = SortedUrls(acc)
    /\ acc' = {}
    /\ idx' = 0
    /\ pg_n' = 1
    /\ pg_log' = <<>>
    /\ pc' = "visit"
    /\ UNCHANGED <<g_vars, dumps, fn_vars, sc_vars, visits, out_vars>>

\* main returns on an empty result with color_counts.csv left unwritten
PagedReturnEmptyOneFile ==
    /\ pc = "paged_end"
    /\ acc = {}
    /\ urls' = <<>>
    /\ models_csv' = HeaderOnly(ModelsHeader)
    /\ pg_n' = 1
    /\ pg_log' = <<>>
    /\ pc' = "done"
    /\ UNCHANGED <<g_vars, dumps, fn_vars, acc, sc_vars, idx, visits,
                   rows, color_to_models, colors_csv>>

\* discover_model_urls_paged returns no URL: main writes the two files with
\* their header rows and returns
PagedReturnEmpty ==
    /\ pc = "paged_end"
    /\ acc = {}
    /\ urls' = <<>>
    /\ models_csv' = HeaderOnly(ModelsHeader)
    /\ colors_csv' = HeaderOnly(ColorsHeader)
    /\ pg_n' = 1
    /\ pg_log' = <<>>
    /\ pc' = "done"
    /\ UNCHANGED <<g_vars, dumps, fn_vars, acc, sc_vars, idx, visits,
                   rows, color_to_models>>

(***************************************************************************)
(* The loop of main over the URLs                                          *)
(***************************************************************************)
\* the next URL: extract_polymaker_colors calls safe_goto on it
VisitNext ==
    /\ pc = "visit"
    /\ idx < Len(urls)
    /\ GotoCall(urls[idx + 1], "model", DefaultAttempts)
    /\ pc' = "model_goto"
    /\ UNCHANGED <<dumps, fn_vars, acc, sc_vars, pg_vars, loop_vars, out_vars>>

\* a failed extraction ends the loop (break in the place of continue)
ExtractFailedBreak ==
    /\ pc = "model_goto"
    /\ g_status = "raised"
    /\ visits' = Append(visits, [url |-> urls[idx + 1], result |-> "nav"])
    /\ idx' = Len(urls)
    /\ pc' = "visit"
    /\ GotoLeave
    /\ UNCHANGED <<dumps, fn_vars, acc, sc_vars, pg_vars, urls, out_vars>>

\* safe_goto raised inside extract_polymaker_colors: main's except prints a
\* warning and goes on with the next URL
ExtractFailedNav ==
    /\ pc = "model_goto"
    /\ g_status = "raised"
    /\ visits' = Append(visits, [url |-> urls[idx + 1], result |-> "nav"])
    /\ idx' = idx + 1
    /\ pc' = "visit"
    /\ GotoLeave
    /\ UNCHANGED <<dumps, fn_vars, acc, sc_vars, pg_vars, urls, out_vars>>

\* the page loaded and its parsing raised: the same except
ExtractFailedParse ==
    /\ pc = "model_goto"
    /\ g_status = "ok"
    /\ visits' = Append(visits, [url |-> urls[idx + 1], result |-> "parse"])
    /\ idx' = idx + 1
    /\ pc' = "visit"
    /\ GotoLeave
    /\ UNCHANGED <<dumps, fn_vars, acc, sc_vars, pg_vars, urls, out_vars>>

\* the page loaded and extract_polymaker_colors returned: a row is appended
\* and each colour is indexed under the title
ExtractOk ==
    /\ pc = "model_goto"
    /\ g_status = "ok"
    /\ \E page \in DetailPages :
         LET url == urls[idx + 1]
             title == TitleText(page.h1, url)
             colors == extract_polymaker_colors(page.soup).colors
         IN  /\ rows' = Append(rows, [model_name |-> title, model_url |-> url,
                                      colors |-> JoinWith(colors, "; ")])
             /\ color_to_models' = IndexColors(color_to_models, colors, title)
             /\ visits' = Append(visits, [url |-> url, result |-> "ok"])
    /\ idx' = idx + 1
    /\ pc' = "visit"
    /\ GotoLeave
    /\ UNCHANGED <<dumps, fn_vars, acc, sc_vars, pg_vars, urls,
                   models_csv, colors_csv>>

\* the loop is over: the two reports are written
WriteReports ==
    /\ pc = "visit"
    /\ idx >= Len(urls)
    /\ models_csv' = ModelsReport(rows)
    /\ colors_csv' = ColorsReport(color_to_models)
    /\ pc' = "done"
    /\ UNCHANGED <<g_vars, dumps, fn_vars, acc, sc_vars, pg_vars, loop_vars,
                   rows, color_to_models>>

(***************************************************************************)
(* The specifications                                                      *)
(***************************************************************************)
Init == InitFor("main")

Next ==
    \/ MainStart
    \/ GotoAttemptOk
    \/ GotoAttemptTimeout
    \/ GotoExhausted
    \/ ListingGotoRaised
    \/ WaitSelector
    \/ ScrollStep
    \/ ScrollReturn
    \/ PagedPageLoaded
    \/ PagedPageTimeout
    \/ PagedReturnFound
    \/ PagedReturnEmpty
    \/ VisitNext
    \/ ExtractFailedNav
    \/ ExtractFailedParse
    \/ ExtractOk
    \/ WriteReports

\* a run of main
Spec == Init /\ [][Next]_vars

\* calls of _normalize_color
SpecNorm == InitFor("norm") /\ [][Normalize]_vars

\* a call of extract_polymaker_colors
SpecColors == InitFor("colors") /\ [][Extract]_vars

\* a call of collect_links_from_html
SpecLinks == InitFor("links") /\ [][CollectLinks]_vars

NextGoto == GotoAttemptOk \/ GotoAttemptTimeout \/ GotoExhausted

\* a call of safe_goto with any attempt budget
SpecGoto == InitFor("goto") /\ [][NextGoto]_vars

\* the scroll loop from its entry; the loop is sequential code, so a pass
\* that can be made is made
SpecScroll == InitFor("scroll") /\ [][ScrollStep]_vars /\ WF_vars(ScrollStep)

(***************************************************************************)
(* The claims                                                              *)
(***************************************************************************)
\* the hrefs of the markup
HrefsOf(html) == {html[i].href : i \in {k \in 1..Len(html) : html[k].has_href}}

\* C1: when some href matches the strict pattern the result is the set of the
\* resolved strictly matching hrefs, and otherwise the set of the resolved
\* hrefs that hold "/3d-model/"
C1_LinksStrictElseLoose ==
    lk_pc = "done" =>
        LET strict == {h \in HrefsOf(lk_html) : ModelLinkSearch(h)}
            loose == {h \in HrefsOf(lk_html) : HasModelPath(h)}
        IN  IF strict # {}
            THEN lk_urls = {UrlJoin(h) : h \in strict}
            ELSE lk_urls = {UrlJoin(h) : h \in loose}

\* a markup with two strict hrefs of one URL and an href that only holds
\* "/3d-model/", which is left out
C1_Witness ==
    /\ lk_pc = "done"
    /\ \E h, g \in HrefsOf(lk_html) :
         h # g /\ ModelLinkSearch(h) /\ ModelLinkSearch(g) /\ UrlJoin(h) = UrlJoin(g)
    /\ \E h \in HrefsOf(lk_html) :
         HasModelPath(h) /\ ~ModelLinkSearch(h) /\ UrlJoin(h) \notin lk_urls
    /\ Cardinality(lk_urls) = 1

\* each of the last StagnantLimit passes went on with the height of the pass
\* before it (before the first pass the height is last_height = 0)
Stagnated ==
    /\ Len(sc_hist) = StagnantLimit + 1
    /\ \A i \in 2..Len(sc_hist) : sc_hist[i] = sc_hist[i - 1]

C2_Inv ==
    /\ sc_it <= ScrollBudget
    /\ pc = "scroll" => sc_it < ScrollBudget /\ ~Stagnated
    /\ pc = "scroll_end" => Stagnated \/ sc_it = ScrollBudget
    /\ (pc = "scroll_end" /\ ~sc_changed) => Stagnated /\ sc_it < ScrollBudget

\* C2: the scroll loop ends, after 40 passes at most and at the end of the
\* first pass that is the fourth in a row to see the height unchanged (an
\* unreadable height counts as unchanged); a page whose height is the same at
\* every reading ends it by stagnation before the 40 passes are made
C2_ScrollTerminates == [](C2_Inv) /\ <>(pc = "scroll_end")

\* the loop ended by stagnation before its 40 passes, after the height had
\* changed
C2_Witness ==
    /\ pc = "scroll_end"
    /\ Stagnated
    /\ sc_changed
    /\ sc_it < ScrollBudget
    /\ sc_it > StagnantLimit + 1

Failed(v) == v.result # "ok"

\* the URLs of the rows, in row order
RowUrls == [k \in 1..Len(rows) |-> rows[k].model_url]

\* the URLs of the visits that ended well, in visit order
OkUrls ==
    LET oks == SelectSeq(visits, LAMBDA v : v.result = "ok")
    IN  [k \in 1..Len(oks) |-> oks[k].url]

C3_Inv ==
    /\ Len(visits) <= Len(urls)
    /\ \A i \in 1..Len(visits) : visits[i].url = urls[i]
    /\ pc \in {"visit", "done"} => idx = Len(visits)
    /\ (pc = "done" /\ urls # <<>>) => Len(visits) = Len(urls)
    /\ RowUrls = OkUrls
    /\ \A i, j \in 1..Len(rows) : i # j => rows[i].model_url # rows[j].model_url

\* a step that ends a visit in failure leaves the rows and the index alone
C3_FailStep ==
    (Len(visits') = Len(visits) + 1 /\ Failed(visits'[Len(visits')]))
        => UNCHANGED <<rows, color_to_models>>

\* C3: the loop takes up every URL once, in list order, whichever of them
\* fail; the rows are the URLs that did not fail, one row each, in visit
\* order; a URL that fails adds nothing to the rows or to the colour index
C3_FailureIsolation == [](C3_Inv) /\ [][C3_FailStep]_vars

\* a finished run in which a navigation failure and a parse error were each
\* followed by a URL that yielded a row
C3_Witness ==
    /\ pc = "done"
    /\ Len(visits) = 3
    /\ visits[1].result = "nav"
    /\ visits[2].result = "parse"
    /\ visits[3].result = "ok"
    /\ Len(rows) = 1

Aborted == pc \in {"aborted_listing", "aborted_paged"}

C4_Inv ==
    /\ (pc = "done" /\ urls = <<>>) =>
         /\ visits = <<>>
         /\ rows = <<>>
         /\ models_csv = [exists |-> TRUE, lines |-> <<ModelsHeader>>]
         /\ colors_csv = [exists |-> TRUE, lines |-> <<ColorsHeader>>]
    /\ pc = "done" => models_csv.exists /\ colors_csv.exists

\* with both results empty the next step is the return of main, and no run
\* is aborted once discovery is over
C4_Step ==
    /\ (pc = "paged_end" /\ acc = {}) => pc' = "done"
    /\ pc \in {"visit", "model_goto", "done"} => pc' \in {"visit", "model_goto", "done"}

\* C4: when both strategies return no URL, main visits no detail page, writes
\* the two files with their header rows alone and returns; a run that is past
\* discovery is never aborted and ends with both files written
C4_EmptyDiscovery == [](C4_Inv) /\ [][C4_Step]_vars

\* main returned after both strategies found nothing
C4_Witness ==
    /\ pc = "done"
    /\ urls = <<>>
    /\ Len(SelectSeq(dumps, LAMBDA d : d = AfterScroll)) = 2
    /\ models_csv.exists
    /\ colors_csv.exists

\* the rows of color_counts.csv below its header
ColorRows == Tail(colors_csv.lines)

\* C5: of two adjacent rows of the per-colour report the first has the larger
\* count, or the same count and a lowercase name that is not the greater one
C5_ColorReportOrder ==
    colors_csv.exists =>
        \A i \in 1..(Len(ColorRows) - 1) :
            LET a == ColorRows[i]
                b == ColorRows[i + 1]
            IN  \/ a[2] > b[2]
                \/ a[2] = b[2] /\ ~StrLess(LowerStr(b[1]), LowerStr(a[1]))

\* a report in which the sort moved a colour ahead of one indexed before it,
\* by count and by name
C5_Witness ==
    /\ colors_csv.exists
    /\ Len(ColorRows) >= 3
    /\ \E i \in 1..(Len(ColorRows) - 1) : ColorRows[i][2] > ColorRows[i + 1][2]
    /\ \E i \in 1..(Len(ColorRows) - 1) :
         /\ ColorRows[i][2] = ColorRows[i + 1][2]
         /\ StrLess(LowerStr(ColorRows[i][1]), LowerStr(ColorRows[i + 1][1]))
    /\ [k \in 1..Len(ColorRows) |-> ColorRows[k][1]]
         # [k \in 1..Len(color_to_models) |-> color_to_models[k].color]

\* the snapshots safe_goto has taken
GotoDumps == SelectSeq(dumps, LAMBDA d : d = <<g_label, "_goto_fail">>)

\* C6: safe_goto makes at most n attempts, returns at the first one that
\* does not time out, and raises only after n timeouts, having taken the
\* snapshot once; a call that returns takes none
C6_GotoBudget ==
    LET made == Len(g_log)
        TimedOut(k) == \A j \in 1..k : g_log[j].result = "timeout"
    IN  /\ made <= g_attempts
        /\ g_status = "running" => TimedOut(made) /\ Len(GotoDumps) = 0
        /\ g_status = "ok" =>
             /\ made >= 1
             /\ g_log[made].result = "ok"
             /\ TimedOut(made - 1)
             /\ Len(GotoDumps) = 0
        /\ g_status = "raised" =>
             /\ made = g_attempts
             /\ TimedOut(made)
             /\ Len(GotoDumps) = 1

\* a call that raised after three timeouts, its snapshot taken
C6_Witness ==
    /\ g_status = "raised"
    /\ g_attempts = 3
    /\ Len(g_log) = 3
    /\ GotoDumps = <<<<g_label, "_goto_fail">>>>

\* the colours the scan of the header's block yields: the strict scan, or
\* the relaxed one when the strict one yields none
BlockColors(soup) ==
    IF extract_from_poly_block_strict(soup) # <<>>
    THEN extract_from_poly_block_strict(soup)
    ELSE extract_from_poly_block_relaxed(soup)

\* C7: on a page that has the promotional header the whole-page scan is not
\* used: the colours returned are those of the block scan, and none are
\* returned when the block yields none
C7_GlobalOnlyWithoutHeader ==
    (cx_pc = "done" /\ cx_soup.header) =>
        cx_colors = CleanColors(<<>>, BlockColors(cx_soup))

\* the index in raw of the first colour whose cleaned lowercase form is key
FirstSeen(raw, key) ==
    CHOOSE j \in 1..Len(raw) :
        /\ LowerStr(CleanOne(raw[j])) = key
        /\ \A k \in 1..(j - 1) : LowerStr(CleanOne(raw[k])) # key

\* C8: whichever tier supplied them, the returned colours have two words or
\* more each, no two of them are equal ignoring case, and they stand in the
\* order in which they were first seen
C8_ReturnedColorsClean ==
    cx_pc = "done" =>
        LET raw == RawColors(cx_soup).colors
            n == Len(cx_colors)
        IN  /\ \A i \in 1..n : WordCount(cx_colors[i]) >= 2
            /\ \A i, j \in 1..n :
                 i # j => LowerStr(cx_colors[i]) # LowerStr(cx_colors[j])
            /\ \A i \in 1..n :
                 /\ \E j \in 1..Len(raw) : CleanOne(raw[j]) = cx_colors[i]
                 /\ cx_colors[i] = CleanOne(raw[FirstSeen(raw, LowerStr(cx_colors[i]))])
            /\ \A i, j \in 1..n :
                 i < j => FirstSeen(raw, LowerStr(cx_colors[i]))
                          < FirstSeen(raw, LowerStr(cx_colors[j]))

\* the whole-page scan caught a one-word name and two names equal ignoring
\* case, and a colour was returned
C8_Witness ==
    /\ cx_pc = "done"
    /\ cx_tier = "global"
    /\ cx_colors # <<>>
    /\ LET raw == RawColors(cx_soup).colors
       IN  /\ \E j \in 1..Len(raw) : WordCount(raw[j]) < 2
           /\ \E j, k \in 1..Len(raw) :
                /\ j < k
                /\ WordCount(raw[j]) >= 2
                /\ raw[j] # raw[k]
                /\ LowerStr(CleanOne(raw[j])) = LowerStr(CleanOne(raw[k]))

\* C9: normalising an already normalised colour returns it unchanged
C9_NormalizeIdempotent == nc_calls = 2 => nc_x = nc_prev

\* the initial navigation to the listing has returned
ListingLoaded == pc \notin {"idle", "start", "listing_goto", "aborted_listing"}

\* C10: once the listing has loaded no failure ends the run, and a run that
\* ends has written both files
C10_OnlyListingFailureAborts ==
    /\ ListingLoaded => ~Aborted
    /\ pc = "done" => models_csv.exists /\ colors_csv.exists

\* C11: the paged fallback requests the pages 1, 2, ... in order, max_pages
\* of them at most, and a page that yields no link that is new to the
\* accumulated set is the last page it requests
C11_PagedStopsOnNoNewLinks ==
    /\ Len(pg_log) <= MaxPages
    /\ \A i \in 1..Len(pg_log) : pg_log[i].n = i
    /\ \A i \in 1..Len(pg_log) :
         ~pg_log[i].fresh => i = Len(pg_log) /\ pc # "paged"

\* the wait state of the j-th attempt of safe_goto as the code lists them
StateOfAttempt(j) ==
    CASE j = 1 -> "domcontentloaded"
      [] j = 2 -> "load"
      [] OTHER -> "none"

\* C12: the attempts of safe_goto take the wait states in the order of the
\* list, one per attempt: the first waits for DOMContentLoaded, the second
\* for the load event, the third and every later one gives no wait state and
\* pauses 1500 ms once the navigation returned; no attempt waits for network
\* idle, and no pause follows a timeout or an attempt with a wait state
C12_WaitStrategies ==
    \A j \in 1..Len(g_log) :
        /\ g_log[j].wait = StateOfAttempt(j)
        /\ g_log[j].wait # "networkidle"
        /\ g_log[j].pause = IF j >= 3 /\ g_log[j].result = "ok" THEN PauseMs ELSE 0

\* a call that returned at its fourth attempt, past the end of the list
C12_Witness ==
    /\ g_status = "ok"
    /\ Len(g_log) = 4
    /\ g_log[3].result = "timeout"
    /\ g_log[4].result = "ok"
    /\ g_log[4].pause = PauseMs

\* C12 as the specification states it: the first attempt waits for network
\* idle, the second for the DOM-ready signal, the third and every later one
\* gives no wait condition
C12_NetworkIdleFirst ==
    \A j \in 1..Len(g_log) :
        g_log[j].wait = CASE j = 1 -> "networkidle"
                          [] j = 2 -> "domcontentloaded"
                          [] OTHER -> "none"

\* the rows of models_colors.csv below its header
ModelRows == Tail(models_csv.lines)

\* the colour names of the colors cell of a per-model row, the cell split
\* at its "; " separators
CellColors(cell) ==
    IF cell = <<>> THEN {}
    ELSE {Slice(cell, a, b) : <<a, b>> \in
            {ab \in (1..Len(cell)) \X (1..Len(cell)) :
                /\ ab[1] <= ab[2]
                /\ ab[1] = 1 \/ cell[ab[1] - 1] = "; "
                /\ ab[2] = Len(cell) \/ cell[ab[2] + 1] = "; "
                /\ \A k \in ab[1]..ab[2] : cell[k] # "; "}}

\* the number of names in the colors cell of a per-model row
CellCount(cell) ==
    IF cell = <<>> THEN 0
    ELSE 1 + Cardinality({k \in 1..Len(cell) : cell[k] = "; "})

\* the sum of f over 1..n
RECURSIVE SumTo(_, _)
SumTo(f, n) == IF n = 0 THEN 0 ELSE f[n] + SumTo(f, n - 1)

\* C13: once main has returned, the per-model report has one row for each
\* detail page whose extraction succeeded, the per-colour report has exactly
\* one row for each colour of some per-model row, the count of a colour is
\* the number of per-model rows that list it, and the counts add up to the
\* number of colours listed over all per-model rows
C13_ReportsConsistent ==
    pc = "done" =>
        /\ Len(ModelRows) = Len(OkUrls)
        /\ \A i \in 1..Len(ModelRows) : ModelRows[i][2] = OkUrls[i]
        /\ {ColorRows[k][1] : k \in 1..Len(ColorRows)}
             = UNION {CellColors(ModelRows[i][3]) : i \in 1..Len(ModelRows)}
        /\ \A j, k \in 1..Len(ColorRows) :
             j # k => ColorRows[j][1] # ColorRows[k][1]
        /\ \A k \in 1..Len(ColorRows) :
             ColorRows[k][2]
               = Cardinality({i \in 1..Len(ModelRows) :
                                ColorRows[k][1] \in CellColors(ModelRows[i][3])})
        /\ SumTo([k \in 1..Len(ColorRows) |-> ColorRows[k][2]], Len(ColorRows))
             = SumTo([i \in 1..Len(ModelRows) |-> CellCount(ModelRows[i][3])],
                     Len(ModelRows))

\* a finished run with a page without colours, a colour used by two pages
\* and a colour used by one
C13_Witness ==
    /\ pc = "done"
    /\ \E i \in 1..Len(ModelRows) : ModelRows[i][3] = <<>>
    /\ \E k \in 1..Len(ColorRows) : ColorRows[k][2] = 2
    /\ \E k \in 1..Len(ColorRows) : ColorRows[k][2] = 1

\* C14: no two rows of color_counts.csv name colours that are equal ignoring
\* case, so no two rows have the same sort key (count, lowercase name)
C14_OneRowPerColorIgnoringCase ==
    colors_csv.exists =>
        \A j, k \in 1..Len(ColorRows) :
            j # k => LowerStr(ColorRows[j][1]) # LowerStr(ColorRows[k][1])

====
